---------------------------- MODULE Spec2Model ----------------------------
(***************************************************************************)
(* A model of orcid_to_bluesky.py: the registry lookups (fetch_orcid_name, *)
(* fetch_works), the recency filter (filter_recent), the post composer     *)
(* (build_post_builder) and the orchestrator (main).                       *)
(*                                                                         *)
(* Conventions.  A Python str is a sequence of one-character strings, so   *)
(* that len, slicing, lstrip, lower and rsplit are computed on it.  An     *)
(* optional value (None or v) is the sequence <<>> or <<v>>.  A datetime   *)
(* is a record [sec, milli] counted from the epoch.                        *)
(***************************************************************************)
EXTENDS Integers, Sequences, FiniteSets, TLC

VARIABLES
    pc,          \* control location of main(), or of the function called on its own
    cfg,         \* the loaded configuration (load_config)
    now,         \* the clock read by datetime.now(timezone.utc)
    personReg,   \* registry: identifier -> outcome of GET .../person, once asked
    worksReg,    \* registry: identifier -> outcome of GET .../works, once asked
    name_cache,  \* main: dict identifier -> display name
    posted,      \* main: number of posts sent
    oidx,        \* main: position of the outer loop in cfg["orcid_ids"]
    author_name, \* main: display name of the current identifier
    items,       \* main: filtered works of the current identifier
    kidx,        \* main: position of the inner loop in items
    net,         \* history: the network calls made, in order
    composed,    \* history: number of build_post_builder calls made by main
    env,         \* the process environment: BLUESKY_HANDLE, BLUESKY_APP_PASSWORD
    arg,         \* the arguments of a function called on its own
    ret          \* the value it returned

vars == <<pc, cfg, now, personReg, worksReg, name_cache, posted, oidx,
          author_name, items, kidx, net, composed, env, arg, ret>>

runVars == <<personReg, worksReg, name_cache, posted, oidx,
             author_name, items, kidx, net, composed>>

-----------------------------------------------------------------------------
(* Bounds of the model *)

MaxTitleLen == 4
MaxTags == 2
MaxWorks == 2
MaxExt == 2
MaxDays == 1
MaxIds == 2
MaxBudget == 2
LongPad == 400

-----------------------------------------------------------------------------
(* Program constants *)

MAX_CHARS == 300
DefaultMaxPosts == 5
DaySec == 86400
MsPerSec == 1000

-----------------------------------------------------------------------------
(* Python values *)

None == <<>>
Some(v) == <<v>>
IsNone(o) == o = <<>>
Val(o) == o[1]

Min(a, b) == IF a <= b THEN a ELSE b
Max(a, b) == IF a >= b THEN a ELSE b

Rep(c, n) == [j \in 1..n |-> c]

SeqsUpTo(S, n) == UNION {[1..m -> S] : m \in 0..n}

RECURSIVE Concat(_)
Concat(ss) == IF ss = <<>> THEN <<>> ELSE Head(ss) \o Concat(Tail(ss))

Take(s, n) == SubSeq(s, 1, Min(Max(n, 0), Len(s)))

NL == "\n"
SP == " "
Ellipsis == "U+2026"

\* "New paper from "
NewPaperFrom ==
    <<"N", "e", "w", " ", "p", "a", "p", "e", "r", " ", "f", "r", "o", "m", " ">>

\* "https://doi.org/"
DoiResolver ==
    <<"h", "t", "t", "p", "s", ":", "/", "/", "d", "o", "i", ".", "o", "r", "g", "/">>

\* "https://orcid.org/"
OrcidProfile ==
    <<"h", "t", "t", "p", "s", ":", "/", "/", "o", "r", "c", "i", "d", ".", "o", "r", "g", "/">>

\* "(no title)"
NoTitle == <<"(", "n", "o", " ", "t", "i", "t", "l", "e", ")">>

\* "doi"
DoiType == <<"d", "o", "i">>

-----------------------------------------------------------------------------
(* str methods *)

\* s.lstrip(c)
RECURSIVE LStrip(_, _)
LStrip(s, c) ==
    IF s # <<>> /\ Head(s) = c THEN LStrip(Tail(s), c) ELSE s

\* c in s
Contains(s, c) == \E j \in 1..Len(s) : s[j] = c

\* s.rsplit(c, 1)[0]: what precedes the last c, or s when there is none
RSplitHead(s, c) ==
    IF Contains(s, c)
    THEN LET last == CHOOSE j \in 1..Len(s) :
                        /\ s[j] = c
                        /\ \A m \in (j + 1)..Len(s) : s[m] # c
         IN  SubSeq(s, 1, last - 1)
    ELSE s

LowerChar(c) ==
    CASE c = "D" -> "d"
      [] c = "O" -> "o"
      [] c = "I" -> "i"
      [] c = "P" -> "p"
      [] OTHER -> c

\* s.lower()
Lower(s) == [j \in 1..Len(s) |-> LowerChar(s[j])]

\* s[:n] for n >= 0
Slice(s, n) == SubSeq(s, 1, Min(n, Len(s)))

-----------------------------------------------------------------------------
(* client_utils.TextBuilder as build_post_builder uses it: a list of spans *)

TextSpan(t) == [kind |-> "text", text |-> t, ref |-> <<>>]
LinkSpan(t, url) == [kind |-> "link", text |-> t, ref |-> url]
TagSpan(t, tag) == [kind |-> "tag", text |-> t, ref |-> tag]

\* builder.build_text()
build_text(b) == Concat([j \in 1..Len(b) |-> b[j].text])

\* the hashtag spans of make_builder
HashtagSpans(hashtags) ==
    [j \in 1..Len(hashtags) |->
        LET clean == LStrip(hashtags[j], "#")
            visible == <<"#">> \o clean
        IN  TagSpan(IF j < Len(hashtags) THEN visible \o <<SP>> ELSE visible,
                    clean)]

\* make_builder(current_title), closed over the arguments of build_post_builder
make_builder(name, profile_url, current_title, doi_url, hashtags) ==
    <<TextSpan(NewPaperFrom), LinkSpan(name, profile_url),
      TextSpan(<<NL>> \o current_title)>>
    \o (IF ~IsNone(doi_url) /\ Val(doi_url) # <<>>
        THEN <<TextSpan(<<NL>>), LinkSpan(Val(doi_url), Val(doi_url))>>
        ELSE <<>>)
    \o (IF hashtags # <<>>
        THEN <<TextSpan(<<NL>>)>> \o HashtagSpans(hashtags)
        ELSE <<>>)

\* ShortTitle with the title cut at the first space of the slice, not the last
ShortTitleFirstSpace(title, overhead) ==
    LET allowed0 == MAX_CHARS - overhead - 1
        allowed == IF allowed0 <= 0 THEN 1 ELSE allowed0
        short == Slice(title, allowed)
        first == CHOOSE j \in 1..Len(short) :
                    short[j] = SP /\ \A m \in 1..(j - 1) : short[m] # SP
    IN  (IF Contains(short, SP) THEN SubSeq(short, 1, first - 1) ELSE short)
        \o <<Ellipsis>>

\* the title build_post_builder renders when the full title does not fit
ShortTitle(title, overhead) ==
    LET allowed0 == MAX_CHARS - overhead - 1
        allowed == IF allowed0 <= 0 THEN 1 ELSE allowed0
        short == Slice(title, allowed)
    IN  (IF Contains(short, SP) THEN RSplitHead(short, SP) ELSE short)
        \o <<Ellipsis>>

build_post_builder(name, profile_url, title, doi_url, hashtags) ==
    LET builder == make_builder(name, profile_url, title, doi_url, hashtags)
        text == build_text(builder)
    IN  IF Len(text) <= MAX_CHARS
        THEN builder
        ELSE make_builder(name, profile_url,
                          ShortTitle(title, Len(text) - Len(title)),
                          doi_url, hashtags)

-----------------------------------------------------------------------------
(* datetime *)

\* datetime.fromtimestamp(int(ts) / 1000, tz=timezone.utc)
FromTimestampMs(ts) == [sec |-> ts \div MsPerSec, milli |-> ts % MsPerSec]

\* d - timedelta(days=days)
MinusDays(d, days) == [sec |-> d.sec - days * DaySec, milli |-> d.milli]

\* a < b on datetimes
Before(a, b) == a.sec < b.sec \/ (a.sec = b.sec /\ a.milli < b.milli)

-----------------------------------------------------------------------------
(* filter_recent *)

\* bool(v) of an optional timestamp: None and 0 are falsy
Truthy(o) == ~IsNone(o) /\ Val(o) # 0

\* created_ts or modified_ts
TsToUse(ws) == IF Truthy(ws.created) THEN ws.created ELSE ws.modified

\* the title of a work summary
ExtractTitle(t) ==
    CASE t.tag = "dict" -> IF IsNone(t.value) THEN NoTitle ELSE Val(t.value)
      [] t.tag = "str"  -> IF Val(t.value) = <<>> THEN NoTitle ELSE Val(t.value)
      [] OTHER -> NoTitle

\* (ext.get("external-id-type") or "").lower() == "doi"
IsDoiTyped(ext) ==
    Lower(IF IsNone(ext.type) THEN <<>> ELSE Val(ext.type)) = DoiType

\* bool(val) of an optional str: None and "" are falsy
HasValue(ext) == ~IsNone(ext.value) /\ Val(ext.value) # <<>>

\* DoiScan without the break: a later entry overwrites an earlier one
RECURSIVE DoiScanLastWins(_)
DoiScanLastWins(exts) ==
    IF exts = <<>> THEN None
    ELSE IF IsDoiTyped(exts[Len(exts)]) /\ HasValue(exts[Len(exts)])
         THEN Some(DoiResolver \o Val(exts[Len(exts)].value))
         ELSE DoiScanLastWins(SubSeq(exts, 1, Len(exts) - 1))

\* the loop over the external ids: url stays None until an entry is taken
RECURSIVE DoiScan(_)
DoiScan(exts) ==
    IF exts = <<>> THEN None
    ELSE IF IsDoiTyped(Head(exts)) /\ HasValue(Head(exts))
         THEN Some(DoiResolver \o Val(Head(exts).value))
         ELSE DoiScan(Tail(exts))

\* the record appended for a work summary that passed the date test
MakeItem(ws) ==
    [title |-> ExtractTitle(ws.title),
     url   |-> DoiScan(ws.extids),
     date  |-> FromTimestampMs(Val(TsToUse(ws)))]

\* the two "continue" tests of the loop body
Kept(ws, cutoff) ==
    /\ Truthy(TsToUse(ws))
    /\ ~Before(FromTimestampMs(Val(TsToUse(ws))), cutoff)

\* the nested loops over groups and work summaries, in order
RECURSIVE Collect(_, _)
Collect(wss, cutoff) ==
    IF wss = <<>> THEN <<>>
    ELSE (IF Kept(Head(wss), cutoff) THEN <<MakeItem(Head(wss))>> ELSE <<>>)
         \o Collect(Tail(wss), cutoff)

\* insertion of x behind every element that is not older than x
RECURSIVE InsertNewestFirst(_, _)
InsertNewestFirst(sorted, x) ==
    IF sorted = <<>> THEN <<x>>
    ELSE IF Before(Head(sorted).date, x.date)
         THEN <<x>> \o sorted
         ELSE <<Head(sorted)>> \o InsertNewestFirst(Tail(sorted), x)

\* SortNewestFirst with the sort left out
SortForgotten(rs) == rs

\* sorted(results, key=lambda x: x["date"], reverse=True), a stable sort
RECURSIVE SortNewestFirst(_)
SortNewestFirst(rs) ==
    IF rs = <<>> THEN <<>>
    ELSE InsertNewestFirst(SortNewestFirst(SubSeq(rs, 1, Len(rs) - 1)),
                           rs[Len(rs)])

\* filter_recent reading only the first work summary of each group
filter_recent_FirstSummary(groups, days, clock) ==
    SortNewestFirst(Collect(Concat([g \in 1..Len(groups) |-> Take(groups[g], 1)]),
                            MinusDays(clock, days)))

filter_recent(groups, days, clock) ==
    SortNewestFirst(Collect(Concat(groups), MinusDays(clock, days)))

-----------------------------------------------------------------------------
(* fetch_orcid_name, fetch_works *)

\* s.strip() of a name
RECURSIVE RStrip(_)
RStrip(s) ==
    IF s # <<>> /\ s[Len(s)] = SP THEN RStrip(SubSeq(s, 1, Len(s) - 1)) ELSE s

Strip(s) == RStrip(LStrip(s, SP))

\* (name.get(k, {}) or {}).get("value") or ""
PartOf(o) == IF IsNone(o) THEN <<>> ELSE Val(o)

\* fetch_orcid_name returning an empty name when the lookup failed
fetch_orcid_name_EmptyOnFailure(orcid_id, resp) ==
    IF ~resp.ok THEN <<>>
    ELSE LET given == PartOf(resp.given)
             family == PartOf(resp.family)
             full_name ==
                 Strip(IF given # <<>> /\ family # <<>>
                       THEN given \o <<SP>> \o family
                       ELSE given \o family)
         IN  IF full_name = <<>> THEN orcid_id ELSE full_name

\* resp is the outcome of the GET: ok is FALSE when the request, the status
\* check or the JSON parse raised
fetch_orcid_name(orcid_id, resp) ==
    IF ~resp.ok THEN orcid_id
    ELSE LET given == PartOf(resp.given)
             family == PartOf(resp.family)
             full_name ==
                 Strip(IF given # <<>> /\ family # <<>>
                       THEN given \o <<SP>> \o family
                       ELSE given \o family)
         IN  IF full_name = <<>> THEN orcid_id ELSE full_name

fetch_works(resp) ==
    IF ~resp.ok THEN <<>>
    ELSE IF IsNone(resp.group) THEN <<>> ELSE Val(resp.group)

-----------------------------------------------------------------------------
(* The inputs *)

Oids == {<<"A">>, <<"B">>}

DayMs == DaySec * MsPerSec

\* the clock: two days after the epoch
NowStart == [sec |-> 2 * DaySec, milli |-> 0]

Doi1 == [type |-> Some(<<"D", "O", "I">>), value |-> Some(<<"1">>)]

\* created today, with a DOI
WNew ==
    [created |-> Some(2 * DayMs), modified |-> Some(2 * DayMs),
     title |-> [tag |-> "dict", value |-> Some(<<"a", " ", "b">>)],
     extids |-> <<Doi1>>]

\* no created-date, modified exactly one day ago
WOld ==
    [created |-> None, modified |-> Some(DayMs),
     title |-> [tag |-> "str", value |-> Some(<<"b">>)],
     extids |-> <<>>]

\* created a millisecond more than one day ago
WStale ==
    [created |-> Some(DayMs - 1), modified |-> Some(2 * DayMs),
     title |-> [tag |-> "absent", value |-> None],
     extids |-> <<>>]

MainSummaries == {WNew, WOld, WStale}

PersonFailed == [ok |-> FALSE, given |-> None, family |-> None]

PersonResponses ==
    {PersonFailed,
     [ok |-> TRUE, given |-> Some(<<"J">>), family |-> Some(<<"D">>)],
     [ok |-> TRUE, given |-> None, family |-> None]}

WorksFailed == [ok |-> FALSE, group |-> None]

WorksResponses ==
    {WorksFailed, [ok |-> TRUE, group |-> None]}
    \cup {[ok |-> TRUE, group |-> Some(<<flat>>)] :
            flat \in SeqsUpTo(MainSummaries, MaxWorks)}

EnvValues == {None, Some(<<>>), Some(<<"h">>)}

\* the identifier lists, up to the renaming of identifiers
IdLists == {s \in SeqsUpTo(Oids, MaxIds) : s = <<>> \/ s[1] = <<"A">>}

Configs ==
    [orcid_ids : IdLists,
     days_back : {MaxDays},
     max_posts_total : {None} \cup {Some(n) : n \in 0..MaxBudget},
     hashtags : {<<<<"#", "t">>>>}]

-----------------------------------------------------------------------------
(* main *)

\* int(cfg.get("max_posts_total", 5))
max_posts ==
    IF IsNone(cfg.max_posts_total) THEN DefaultMaxPosts
    ELSE Val(cfg.max_posts_total)

\* the identifier of the current iteration of the outer loop
oid == cfg.orcid_ids[oidx]

\* a network call: its kind, the iteration of the outer loop that made it and
\* that iteration's identifier, whether it succeeded, and what a post carried
Event(kind, id, ok, item, builder) ==
    [kind |-> kind, idx |-> oidx, oid |-> id, ok |-> ok, item |-> item,
     builder |-> builder]

\* BudgetExhausted off by one
BudgetExhaustedLate == posted > max_posts

\* posted >= max_posts
BudgetExhausted == posted >= max_posts

\* Cached with the cache never consulted
CachedNever == FALSE

\* oid in name_cache
Cached == oid \in DOMAIN name_cache

Known(reg, id) == id \in DOMAIN reg

\* CredentialsMissing testing the handle alone
CredentialsMissingHandleOnly ==
    IsNone(env.handle) \/ Val(env.handle) = <<>>

\* not handle or not app_pw
CredentialsMissing ==
    \/ IsNone(env.handle) \/ Val(env.handle) = <<>>
    \/ IsNone(env.app_pw) \/ Val(env.app_pw) = <<>>

\* lines 184-199: the credentials test, then client.login
Startup ==
    /\ pc = "start"
    /\ IF CredentialsMissing
       THEN /\ pc' = "fatal"
            /\ UNCHANGED net
       ELSE \E ok \in BOOLEAN :
               /\ net' = Append(net, Event("login", <<>>, ok, None, None))
               /\ pc' = IF ok THEN "loop" ELSE "aborted"
    /\ UNCHANGED <<cfg, now, env, arg, ret, personReg, worksReg, name_cache,
                   posted, oidx, author_name, items, kidx, composed>>

\* lines 204-206: the next identifier, and the budget test before it is used
LoopHead ==
    /\ pc = "loop"
    /\ IF oidx = Len(cfg.orcid_ids)
       THEN /\ pc' = "done"
            /\ UNCHANGED oidx
       ELSE /\ oidx' = oidx + 1
            /\ pc' = IF BudgetExhausted THEN "done" ELSE "name"
    /\ UNCHANGED <<cfg, now, env, arg, ret, personReg, worksReg, name_cache,
                   posted, author_name, items, kidx, net, composed>>

\* lines 210-212: the cached name, or a person lookup that fills the cache
ResolveName ==
    /\ pc = "name"
    /\ IF Cached
       THEN /\ author_name' = name_cache[oid]
            /\ UNCHANGED <<name_cache, personReg, net>>
       ELSE \E resp \in PersonResponses :
               /\ Known(personReg, oid) => resp = personReg[oid]
               /\ personReg' = (oid :> resp) @@ personReg
               /\ net' = Append(net, Event("person", oid, resp.ok, None, None))
               /\ name_cache' = (oid :> fetch_orcid_name(oid, resp)) @@ name_cache
               /\ author_name' = fetch_orcid_name(oid, resp)
    /\ pc' = "works"
    /\ UNCHANGED <<cfg, now, env, arg, ret, worksReg, posted, oidx, items,
                   kidx, composed>>

\* lines 216-221: the works lookup, the filter, and the test for no items
FetchAndFilter ==
    /\ pc = "works"
    /\ \E resp \in WorksResponses :
          /\ Known(worksReg, oid) => resp = worksReg[oid]
          /\ worksReg' = (oid :> resp) @@ worksReg
          /\ net' = Append(net, Event("works", oid, resp.ok, None, None))
          /\ items' = filter_recent(fetch_works(resp), cfg.days_back, now)
    /\ kidx' = 0
    /\ pc' = IF items' = <<>> THEN "loop" ELSE "items"
    /\ UNCHANGED <<cfg, now, env, arg, ret, personReg, name_cache, posted,
                   oidx, author_name, composed>>

\* lines 223-245: one iteration of the inner loop
PostItem ==
    /\ pc = "items"
    /\ IF kidx = Len(items)
       THEN /\ pc' = "loop"
            /\ UNCHANGED <<kidx, posted, net, composed>>
       ELSE /\ kidx' = kidx + 1
            /\ IF BudgetExhausted
               THEN /\ pc' = "loop"
                    /\ UNCHANGED <<posted, net, composed>>
               ELSE LET item == items[kidx + 1]
                        builder ==
                            build_post_builder(author_name, OrcidProfile \o oid,
                                               item.title, item.url, cfg.hashtags)
                    IN  /\ composed' = composed + 1
                        /\ \E ok \in BOOLEAN :
                              /\ net' = Append(net, Event("post", oid, ok,
                                                          Some(item), Some(builder)))
                              /\ posted' = IF ok THEN posted + 1 ELSE posted
                              /\ pc' = IF ok THEN "items" ELSE "aborted"
    /\ UNCHANGED <<cfg, now, env, arg, ret, personReg, worksReg, name_cache,
                   oidx, author_name, items>>

Idle ==
    /\ personReg = <<>>
    /\ worksReg = <<>>
    /\ name_cache = <<>>
    /\ posted = 0
    /\ oidx = 0
    /\ author_name = <<>>
    /\ items = <<>>
    /\ kidx = 0
    /\ net = <<>>
    /\ composed = 0

Init ==
    /\ pc = "start"
    /\ cfg \in Configs
    /\ env \in [handle : EnvValues, app_pw : EnvValues]
    /\ now = NowStart
    /\ arg = <<>>
    /\ ret = None
    /\ Idle

Next == Startup \/ LoopHead \/ ResolveName \/ FetchAndFilter \/ PostItem

Spec == Init /\ [][Next]_vars

-----------------------------------------------------------------------------
(* What a run did, read from its history *)

Last(s) == s[Len(s)]

EventsOf(kind) == SelectSeq(net, LAMBDA e : e.kind = kind)

\* the posts that were accepted, in order
Posts == SelectSeq(net, LAMBDA e : e.kind = "post" /\ e.ok)

PostedWorks ==
    [j \in 1..Len(Posts) |->
        [idx |-> Posts[j].idx, oid |-> Posts[j].oid, item |-> Val(Posts[j].item)]]

\* the identifiers whose works were asked for: a prefix of the configured list
Processed == Len(EventsOf("works"))

\* the work summaries the registry holds for an identifier that was asked for
Flat(id) == Concat(fetch_works(worksReg[id]))

Cutoff == MinusDays(now, cfg.days_back)

\* the filtered works of the i-th configured identifier
ExpectedFor(i) ==
    LET id == cfg.orcid_ids[i]
        its == filter_recent(fetch_works(worksReg[id]), cfg.days_back, now)
    IN  [j \in 1..Len(its) |-> [idx |-> i, oid |-> id, item |-> its[j]]]

Expected == Concat([i \in 1..Processed |-> ExpectedFor(i)])

Occurrences(id) ==
    Cardinality({i \in 1..Len(cfg.orcid_ids) : cfg.orcid_ids[i] = id})

\* the accepted posts of an identifier that carry the record c
CountPosts(id, c) ==
    Cardinality({j \in 1..Len(Posts) :
                    Posts[j].oid = id /\ Val(Posts[j].item) = c})

\* the qualifying work summaries of an identifier whose record is c
CountQualifying(id, c) ==
    Cardinality({j \in 1..Len(Flat(id)) :
                    Kept(Flat(id)[j], Cutoff) /\ MakeItem(Flat(id)[j]) = c})

QualifyingRecords(id) ==
    {MakeItem(Flat(id)[j]) : j \in {m \in 1..Len(Flat(id)) : Kept(Flat(id)[m], Cutoff)}}

-----------------------------------------------------------------------------
(* Claims about main *)

\* C2: the number of post submissions never exceeds max_posts_total, and once
\* it has reached max_posts_total no step of the run makes a registry lookup,
\* a composition or a submission.
C2_BudgetNeverExceeded ==
    /\ [](Len(EventsOf("post")) <= max_posts)
    /\ [][Len(EventsOf("post")) >= max_posts
            => /\ SelectSeq(net', LAMBDA e : e.kind # "login")
                    = SelectSeq(net, LAMBDA e : e.kind # "login")
               /\ composed' = composed]_vars

\* a run that stopped on the budget with a configured identifier never asked for
C2_Witness ==
    /\ pc = "done"
    /\ max_posts >= 1
    /\ Len(Posts) = max_posts
    /\ Processed < Len(cfg.orcid_ids)

\* C3: with the handle or the application password absent, the run ends in the
\* fatal error and makes no network call of any kind.
C3_NoNetworkWithoutCredentials ==
    (IsNone(env.handle) \/ IsNone(env.app_pw)) =>
        /\ pc \in {"start", "fatal"}
        /\ net = <<>>
        /\ composed = 0
        /\ pc = "fatal" => ~ENABLED Next

C3_Witness ==
    /\ pc = "fatal"
    /\ ~IsNone(env.handle) /\ Val(env.handle) # <<>>
    /\ IsNone(env.app_pw)

\* C4: a failed person lookup yields the identifier as the name and a failed
\* works lookup yields no items; neither ends the run, which is only ever
\* ended early by the credentials test or by the publisher; and a run that
\* completes with budget left has asked for the works of every identifier.
C4_LookupFailureIsSoft ==
    /\ \A j \in 1..Len(net) :
          (net[j].kind = "person" /\ ~net[j].ok)
              => name_cache[net[j].oid] = net[j].oid
    /\ (net # <<>> /\ Last(net).kind = "person" /\ ~Last(net).ok)
          => (pc = "works" /\ author_name = Last(net).oid)
    /\ (net # <<>> /\ Last(net).kind = "works" /\ ~Last(net).ok)
          => (items = <<>> /\ pc \in {"loop", "name", "works", "done"})
    /\ pc = "aborted" => (Last(net).kind \in {"login", "post"} /\ ~Last(net).ok)
    /\ pc = "fatal" => net = <<>>
    /\ (pc = "done" /\ posted < max_posts)
          => \A i \in 1..Len(cfg.orcid_ids) :
                \E j \in 1..Len(net) : net[j].kind = "works" /\ net[j].idx = i

\* both lookups of the first identifier failed and the second one was posted
C4_Witness ==
    /\ pc = "done"
    /\ Len(cfg.orcid_ids) = 2
    /\ \E j \in 1..Len(net) :
          net[j].kind = "person" /\ net[j].idx = 1 /\ ~net[j].ok
    /\ \E j \in 1..Len(net) :
          net[j].kind = "works" /\ net[j].idx = 1 /\ ~net[j].ok
    /\ \E j \in 1..Len(Posts) : Posts[j].idx = 2

\* C6: the accepted posts are, in order, the first max_posts_total records of
\* the configured identifiers' filtered works, identifier by identifier, and
\* within one identifier never an older record before a newer one.
C6_PostsAreBudgetPrefix ==
    /\ PostedWorks = Take(Expected, Len(PostedWorks))
    /\ \A j \in 1..(Len(PostedWorks) - 1) :
          PostedWorks[j].idx = PostedWorks[j + 1].idx
              => ~Before(PostedWorks[j].item.date, PostedWorks[j + 1].item.date)
    /\ pc = "done" =>
          /\ PostedWorks = Take(Expected, max_posts)
          /\ Processed < Len(cfg.orcid_ids) => Len(PostedWorks) = max_posts

\* two identifiers, a budget of one: one post, of the first identifier's
\* newest work, and the second identifier never asked for
C6_Witness ==
    /\ pc = "done"
    /\ cfg.orcid_ids = <<<<"A">>, <<"B">>>>
    /\ max_posts = 1
    /\ Len(Posts) = 1
    /\ Posts[1].idx = 1
    /\ Len(ExpectedFor(1)) = 2
    /\ Before(ExpectedFor(1)[2].item.date, ExpectedFor(1)[1].item.date)
    /\ PostedWorks[1] = ExpectedFor(1)[1]
    /\ Processed = 1

C10_NameLookedUpOnce ==
    /\ [](/\ \A id \in Oids :
                Cardinality({j \in 1..Len(net) :
                    net[j].kind = "person" /\ net[j].oid = id}) <= 1
          /\ pc \in {"works", "items"} => author_name = name_cache[oid]
          /\ \A j \in 1..Len(Posts) :
                Val(Posts[j].builder)[2].text = name_cache[Posts[j].oid])
    /\ [][\A id \in DOMAIN name_cache :
            id \in DOMAIN name_cache' /\ name_cache'[id] = name_cache[id]]_vars

\* the second occurrence of an identifier was posted without a second lookup
C10_Witness ==
    /\ pc = "done"
    /\ cfg.orcid_ids = <<<<"A">>, <<"A">>>>
    /\ Len(EventsOf("person")) = 1
    /\ Processed = 2
    /\ \E j \in 1..Len(Posts) : Posts[j].idx = 2

-----------------------------------------------------------------------------
(* filter_recent on its own *)

NoConfig ==
    [orcid_ids |-> <<>>, days_back |-> 0, max_posts_total |-> None,
     hashtags |-> <<>>]

NoEnv == [handle |-> None, app_pw |-> None]

PlainTitle == [tag |-> "dict", value |-> Some(<<"a">>)]

\* the epoch, a millisecond more than a day ago, a day ago, now
OptTimestamps == {None, Some(0), Some(DayMs - 1), Some(DayMs), Some(2 * DayMs)}

\* every combination of the two dates
DatedSummaries ==
    [created : OptTimestamps, modified : OptTimestamps,
     title : {PlainTitle}, extids : {<<>>}]

TitleShapes ==
    {[tag |-> "absent", value |-> None],
     [tag |-> "dict", value |-> None],
     [tag |-> "dict", value |-> Some(<<"a", " ", "b">>)],
     [tag |-> "str", value |-> Some(<<"b">>)],
     [tag |-> "str", value |-> Some(<<>>)],
     [tag |-> "other", value |-> None]}

\* every shape of the title, on a work created now
TitledSummaries ==
    [created : {Some(2 * DayMs)}, modified : {None},
     title : TitleShapes, extids : {<<>>}]

ExtEntries ==
    [type : {None, Some(<<"d", "o", "i">>), Some(<<"D", "O", "I">>),
             Some(<<"p", "m", "i", "d">>)},
     value : {None, Some(<<>>), Some(<<"1">>), Some(<<"2">>)}]

\* every list of external ids, on a work created now
ExtSummaries ==
    [created : {Some(2 * DayMs)}, modified : {None},
     title : {PlainTitle}, extids : SeqsUpTo(ExtEntries, MaxExt)]

\* the work summaries of a response, in order
FilterLists ==
    SeqsUpTo(DatedSummaries, MaxWorks)
    \cup {<<w>> : w \in TitledSummaries \cup ExtSummaries}

\* a list of work summaries laid out in two groups
InGroups(flat, cut) == <<SubSeq(flat, 1, cut), SubSeq(flat, cut + 1, Len(flat))>>

FilterInit ==
    /\ pc = "filter_call"
    /\ \E flat \in FilterLists : \E cut \in 0..Len(flat) : \E days \in 0..MaxDays :
          arg = [groups |-> InGroups(flat, cut), days |-> days]
    /\ now = NowStart
    /\ ret = None
    /\ cfg = NoConfig
    /\ env = NoEnv
    /\ Idle

FilterCall ==
    /\ pc = "filter_call"
    /\ ret' = Some(filter_recent(arg.groups, arg.days, now))
    /\ pc' = "filter_ret"
    /\ UNCHANGED <<cfg, now, env, arg, runVars>>

FilterNext == FilterCall

SpecFilter == FilterInit /\ [][FilterNext]_vars

-----------------------------------------------------------------------------
(* build_post_builder on its own *)

TitleTails == SeqsUpTo({"a", SP}, MaxTitleLen)

TagLists == SeqsUpTo({<<"t">>, <<"#", "#", "x">>}, MaxTags)

DoiChoices == {None, Some(DoiResolver \o <<"1">>)}

\* what the render holds besides the title
OverheadOf(name, doi_url, hashtags) ==
    Len(build_text(make_builder(name, <<>>, <<>>, doi_url, hashtags)))

\* the lengths of the author name: a short one, and those that leave the
\* title from a few characters more than it needs to none at all
NameLens(doi_url, hashtags) ==
    {8} \cup {n \in 1..(MAX_CHARS + 2) :
                OverheadOf(Rep("n", n), doi_url, hashtags)
                    \in (MAX_CHARS - MaxTitleLen - 2)..(MAX_CHARS + 1)}

ComposeArgs(name, title, doi_url, hashtags) ==
    [name |-> name, profile_url |-> OrcidProfile \o <<"A">>, title |-> title,
     doi_url |-> doi_url, hashtags |-> hashtags]

ComposeInit ==
    /\ pc = "compose_call"
    /\ \E tail \in TitleTails : \E doi_url \in DoiChoices : \E tags \in TagLists :
          \/ \E n \in NameLens(doi_url, tags) :
                arg = ComposeArgs(Rep("n", n), tail, doi_url, tags)
          \/ arg = ComposeArgs(Rep("n", 8), tail \o Rep("a", LongPad), doi_url, tags)
    /\ now = NowStart
    /\ ret = None
    /\ cfg = NoConfig
    /\ env = NoEnv
    /\ Idle

ComposeCall ==
    /\ pc = "compose_call"
    /\ ret' = Some(build_post_builder(arg.name, arg.profile_url, arg.title,
                                      arg.doi_url, arg.hashtags))
    /\ pc' = "compose_ret"
    /\ UNCHANGED <<cfg, now, env, arg, runVars>>

ComposeNext == ComposeCall

SpecCompose == ComposeInit /\ [][ComposeNext]_vars

-----------------------------------------------------------------------------
(* Claims about filter_recent *)

FilterInput == Concat(arg.groups)

FilterCutoff == MinusDays(now, arg.days)

\* the dates of the records of a list, with their multiplicities
DateCount(rs, d) == Cardinality({j \in 1..Len(rs) : rs[j].date = d})

\* the timestamp the claim calls effective: created-date when the summary
\* has one, otherwise last-modified-date
StatedTs(ws) == IF ~IsNone(ws.created) THEN ws.created ELSE ws.modified

StatedQualifies(ws) ==
    /\ ~IsNone(StatedTs(ws))
    /\ ~Before(FromTimestampMs(Val(StatedTs(ws))), FilterCutoff)

StatedDateCount(d) ==
    Cardinality({j \in 1..Len(FilterInput) :
                    /\ StatedQualifies(FilterInput[j])
                    /\ FromTimestampMs(Val(StatedTs(FilterInput[j]))) = d})

\* C5: filter_recent returns one record for each work summary whose effective
\* timestamp (created-date if present, otherwise last-modified-date) exists
\* and is not before the cutoff, carrying that timestamp, and none for any
\* other summary.
C5_EmittedIffEffectiveRecent ==
    pc = "filter_ret" =>
        /\ Len(Val(ret)) =
              Cardinality({j \in 1..Len(FilterInput) :
                              StatedQualifies(FilterInput[j])})
        /\ \A j \in 1..Len(Val(ret)) :
              DateCount(Val(ret), Val(ret)[j].date)
                  = StatedDateCount(Val(ret)[j].date)

\* the same statement for the summaries whose created-date is not 0
C5_HoldsForNonzeroCreated ==
    (pc = "filter_ret"
        /\ \A j \in 1..Len(FilterInput) :
              /\ FilterInput[j].created # Some(0)
              /\ IsNone(FilterInput[j].created)
                    => FilterInput[j].modified # Some(0))
    => C5_EmittedIffEffectiveRecent

\* the external ids of the one summary of the input, when it was emitted
OneEmitted == pc = "filter_ret" /\ Len(FilterInput) = 1 /\ Len(Val(ret)) = 1

StatedDoiTyped(ext) == ~IsNone(ext.type) /\ Lower(Val(ext.type)) = DoiType

StatedHasValue(ext) == ~IsNone(ext.value) /\ Val(ext.value) # <<>>

\* the positions of the DOI-typed entries
DoiPositions(exts) == {j \in 1..Len(exts) : StatedDoiTyped(exts[j])}

FirstOf(S) == CHOOSE j \in S : \A m \in S : j <= m

\* C9 as stated: doi_url comes from the first DOI-typed entry, and is absent
\* when that entry has no value, whatever follows it.
C9_FirstDoiTypedEntryDecides ==
    OneEmitted =>
        LET exts == FilterInput[1].extids
            P == DoiPositions(exts)
        IN  Val(ret)[1].url =
                IF P # {} /\ StatedHasValue(exts[FirstOf(P)])
                THEN Some(DoiResolver \o Val(exts[FirstOf(P)].value))
                ELSE None

\* C9 amended: doi_url comes from the first DOI-typed entry that has a
\* non-empty value, and is absent when there is no such entry.
C9_FirstValuedDoiEntryDecides ==
    OneEmitted =>
        LET exts == FilterInput[1].extids
            P == {j \in DoiPositions(exts) : StatedHasValue(exts[j])}
        IN  Val(ret)[1].url =
                IF P # {}
                THEN Some(DoiResolver \o Val(exts[FirstOf(P)].value))
                ELSE None

\* two DOI-typed entries with different values: the first one is used
C9_Witness ==
    /\ OneEmitted
    /\ LET exts == FilterInput[1].extids
       IN  /\ Len(exts) = 2
           /\ StatedDoiTyped(exts[1]) /\ StatedHasValue(exts[1])
           /\ StatedDoiTyped(exts[2]) /\ StatedHasValue(exts[2])
           /\ exts[1].value # exts[2].value
           /\ exts[1].type = Some(<<"D", "O", "I">>)
           /\ Val(ret)[1].url = Some(DoiResolver \o Val(exts[1].value))

-----------------------------------------------------------------------------
(* Claims about build_post_builder *)

ComposedText == build_text(Val(ret))

\* the title as rendered: the third span without its leading newline
RenderedTitle == Tail(Val(ret)[3].text)

\* C1: the text of the composed post is at most MAX_CHARS characters long.
C1_TextWithinMaxChars ==
    pc = "compose_ret" => Len(ComposedText) <= MAX_CHARS

\* the same statement for the renders whose other parts leave the title and
\* its ellipsis two characters
C1_HoldsWithRoomForTitle ==
    (pc = "compose_ret"
        /\ OverheadOf(arg.name, arg.doi_url, arg.hashtags) <= MAX_CHARS - 2)
    => Len(ComposedText) <= MAX_CHARS

StatedOverhead == Len(ComposedText) - Len(RenderedTitle)

StatedAllowed == Max(1, MAX_CHARS - StatedOverhead - 1)

StatedSlice == Take(arg.title, StatedAllowed)

FullRenderFits == StatedOverhead + Len(arg.title) <= MAX_CHARS

\* C8: a title whose full render fits is rendered unchanged; otherwise the
\* rendered title is a prefix of the title, followed by one ellipsis: the
\* first `allowed` characters when they hold no space, and what precedes
\* their last space when they do.
C8_TruncationAtWordBoundary ==
    pc = "compose_ret" =>
        IF FullRenderFits
        THEN RenderedTitle = arg.title
        ELSE LET n == Len(RenderedTitle) - 1
                 body == SubSeq(RenderedTitle, 1, n)
             IN  /\ Len(RenderedTitle) >= 1
                 /\ RenderedTitle[n + 1] = Ellipsis
                 /\ n <= StatedAllowed
                 /\ body = Take(arg.title, n)
                 /\ ~Contains(body, Ellipsis)
                 /\ IF Contains(StatedSlice, SP)
                    THEN /\ n < Len(StatedSlice)
                         /\ StatedSlice[n + 1] = SP
                         /\ \A m \in (n + 2)..Len(StatedSlice) : StatedSlice[m] # SP
                    ELSE body = StatedSlice

\* a long title cut inside its last word, behind two earlier words
C8_Witness ==
    /\ pc = "compose_ret"
    /\ ~FullRenderFits
    /\ arg.title = <<"a", SP, "a", SP>> \o Rep("a", LongPad)
    /\ StatedAllowed > 4
    /\ RenderedTitle = <<"a", SP, "a", Ellipsis>>

=============================================================================
